---------------------------- MODULE Spec2Model ----------------------------
(***************************************************************************)
(* A model of the Sudoku generator and solver of 607011/SudokuGenerator.   *)
(*                                                                         *)
(* SudokuSolver.py reads a board and drains the recursive generator        *)
(* Sudoku.solve(); SudokuGenerator.py places random clues and drains the   *)
(* same generator to count the solutions.  The recursion of solve() is     *)
(* modelled as an explicit stack of frames, one frame per active call,     *)
(* and every loop iteration of solve() is one step.                        *)
(***************************************************************************)
EXTENDS Integers, Sequences, FiniteSets

VARIABLES
    prog,       \* which program runs: "solver" or "generator"
    board,      \* self.board: board[r][c] in 0..9, 0 is empty
    stack,      \* the active calls of solve(), innermost last
    pc,         \* where control is
    counter,    \* main's counter / len(solutions): items pulled so far
    emitted,    \* history: the grid at each yield, in order
    start,      \* history: the grid the enumeration was started on
    rng,        \* self.rng: the seed and how many draws were taken
    difficulty, \* generate's argument
    timeout,    \* generate's argument: << >> is None, <<t>> the deadline t
    clock,      \* time.time()
    n_tries,    \* generate's attempt counter
    n,          \* generate's count of placements still to make
    min_empty,  \* what min_empty_cells_for_difficulty last returned
    stderr,     \* the diagnostics printed so far
    stdin,      \* SudokuSolver's main: the lines read from standard input
    loop_inifinitely, \* SudokuGenerator's main: 'loop' is among the arguments
    calls       \* SudokuGenerator's main: the calls of generate made so far

genvars == <<rng, difficulty, timeout, clock, n_tries, n, min_empty, stderr>>

mainvars == <<stdin, loop_inifinitely, calls>>

vars == <<prog, board, stack, pc, counter, emitted, start, genvars, mainvars>>

Idx == 0..8

(***************************************************************************)
(* Bounds of the solver's inputs.                                          *)
(***************************************************************************)
MaxHoles == 8

\* A solved grid the input boards are cut from (the first grid solve() emits
\* on the empty board).
BaseRows ==
    << <<1,2,3,4,5,6,7,8,9>>,
       <<4,5,6,7,8,9,1,2,3>>,
       <<7,8,9,1,2,3,4,5,6>>,
       <<2,1,4,3,6,5,8,9,7>>,
       <<3,6,5,8,9,7,2,1,4>>,
       <<8,9,7,2,1,4,3,6,5>>,
       <<5,3,1,6,4,2,9,7,8>>,
       <<6,4,2,9,7,8,5,3,1>>,
       <<9,7,8,5,3,1,6,4,2>> >>

Base == [r \in Idx |-> [c \in Idx |-> BaseRows[r + 1][c + 1]]]


\* Cells of Base an input board may leave empty: two 2x2 swaps (rows 0 and 3,
\* columns 0-1 and 4-5) that give boards with 2 and 4 solutions, then single
\* cells.
HoleCells ==
    << <<0,0>>, <<0,1>>, <<3,0>>, <<3,1>>, <<0,4>>, <<0,5>>, <<3,4>>, <<3,5>>,
       <<8,8>>, <<4,4>>, <<1,0>>, <<6,6>> >>

\* What else a board may differ from Base in, as sets of <<row, column,
\* digit>>: nothing; a digit typed over an empty cell or over a clue (which
\* may repeat a digit of its row); a further 2x2 block left empty whose swap
\* keeps rows and columns but not the boxes.
Edits ==
    { {},
      { <<0, 0, 2>> },
      { <<8, 7, 2>> },
      { <<0, 2, 0>>, <<0, 3, 0>>, <<3, 2, 0>>, <<3, 3, 0>> } }

Min(a, b) == IF a < b THEN a ELSE b

HolePool == { HoleCells[i] : i \in 1..Min(MaxHoles, Len(HoleCells)) }

Punch(H, E) ==
    [r \in Idx |-> [c \in Idx |->
        IF \E e \in E : e[1] = r /\ e[2] = c
        THEN (CHOOSE e \in E : e[1] = r /\ e[2] = c)[3]
        ELSE IF <<r, c>> \in H THEN 0 ELSE Base[r][c]]]

\* The boards handed to the solver: 81 digits each, possibly with repeated
\* clues (main() checks nothing).
StartGrids ==
    { Punch(H, E) : H \in SUBSET HolePool, E \in Edits }

(***************************************************************************)
(* Sudoku.number_is_valid, both programs' versions.                        *)
(***************************************************************************)
\* (mutant) the generator's number_is_valid with the box origin taken as
\* row // 3 and column // 3.
number_is_valid_origin_div(b, row, column, number) ==
    LET r == row \div 3
        c == column \div 3
    IN  ~ ( \/ \E i \in Idx : b[i][column] = number
            \/ \E j \in Idx : b[row][j] = number
            \/ \E i \in r..(r + 2), j \in c..(c + 2) : b[i][j] = number )

\* (mutant) the generator's number_is_valid without the test of the box.
number_is_valid_no_box(b, row, column, number) ==
    ~ ( \/ \E i \in Idx : b[i][column] = number
        \/ \E j \in Idx : b[row][j] = number )

\* SudokuGenerator.py: column, row and 3x3 slice compared with the number.
number_is_valid(b, row, column, number) ==
    LET r == row - (row % 3)
        c == column - (column % 3)
    IN  ~ ( \/ \E i \in Idx : b[i][column] = number
            \/ \E j \in Idx : b[row][j] = number
            \/ \E i \in r..(r + 2), j \in c..(c + 2) : b[i][j] = number )

\* (mutant) the solver's check without its loop over the square.
solver_number_is_valid_no_square(b, row, column, number) ==
    \A i \in Idx : ~ (b[row][i] = number \/ b[i][column] = number)

\* SudokuSolver.py: a loop over the row and column, then over the square.
solver_number_is_valid(b, row, column, number) ==
    LET start_column == (column \div 3) * 3
        start_row == (row \div 3) * 3
    IN  /\ \A i \in Idx : ~ (b[row][i] = number \/ b[i][column] = number)
        /\ \A i \in 0..2, j \in 0..2 :
              b[i + start_row][j + start_column] # number

IsValid(b, row, column, number) ==
    IF prog = "generator" THEN number_is_valid(b, row, column, number)
    ELSE solver_number_is_valid(b, row, column, number)

(***************************************************************************)
(* Sudoku.solve(), the same text in both programs.                         *)
(***************************************************************************)
EmptyCells(b) == { k \in 0..80 : b[k \div 9][k % 9] = 0 }

\* (mutant) the scan stopping at a cell that holds 0 or 1.
FirstEmptyOrOne(b) ==
    CHOOSE k \in 0..80 :
        /\ b[k \div 9][k % 9] \in {0, 1}
        /\ \A m \in 0..(k - 1) : b[m \div 9][m % 9] \notin {0, 1}

\* (mutant) the scan run backwards: the last empty cell.
FirstEmptyReversed(b) == CHOOSE k \in EmptyCells(b) : \A m \in EmptyCells(b) : m <= k

\* The scan "for r in range(9): for c in range(9): if board[r][c] == 0":
\* the first empty cell in row-major order, as 9*r + c.
FirstEmpty(b) == CHOOSE k \in EmptyCells(b) : \A m \in EmptyCells(b) : k <= m

\* SudokuSolver.py keeps the board as the list of lists main parsed, which
\* may have fewer than 9 rows and rows of fewer than 9 entries.  A cell the
\* lists do not have holds Absent: reading it raises IndexError.  (The numpy
\* board of the generator is always 9 x 9.)
Absent == 0 - 1

AbsentCells(b) == { k \in 0..80 : b[k \div 9][k % 9] = Absent }

\* The scan of solve() reads a cell the board does not have before it finds
\* an empty one.
ScanRaises(b) == \E k \in AbsentCells(b) : \A m \in EmptyCells(b) : k < m

\* The cells SudokuSolver's number_is_valid reads, in the order it reads
\* them: board[row][i] and board[i][column] for i = 0..8, then the square.
Accesses(row, column) ==
    [p \in 1..18 |-> IF p % 2 = 1 THEN <<row, (p - 1) \div 2>>
                                   ELSE <<(p - 1) \div 2, column>>]
    \o [q \in 1..9 |-> << (row \div 3) * 3 + ((q - 1) \div 3),
                           (column \div 3) * 3 + ((q - 1) % 3) >>]

\* number_is_valid raises IndexError: it reads a cell the board does not
\* have before it has found the number and returned False.
ValidRaises(b, row, column, number) ==
    LET acc == Accesses(row, column)
    IN  \E p \in 1..27 :
            /\ b[acc[p][1]][acc[p][2]] = Absent
            /\ \A q \in 1..(p - 1) : b[acc[q][1]][acc[q][2]] # number

\* A call of solve() that has just scanned the board: in the candidate loop
\* of the first empty cell ("loop", next candidate n), or at "yield True"
\* when no cell is empty ("full"), or raising IndexError in the scan
\* ("raise").  entry is history: the grid at the call.
NewFrame(b) ==
    IF ScanRaises(b)
    THEN [st |-> "raise", r |-> 0, c |-> 0, n |-> 0, entry |-> b]
    ELSE IF EmptyCells(b) = {}
    THEN [st |-> "full", r |-> 0, c |-> 0, n |-> 0, entry |-> b]
    ELSE [st |-> "loop", r |-> FirstEmpty(b) \div 9, c |-> FirstEmpty(b) % 9,
          n |-> 1, entry |-> b]

Top == stack[Len(stack)]

SetTop(f) == [stack EXCEPT ![Len(stack)] = f]

Place(b, r, c, v) == [b EXCEPT ![r][c] = v]

\* The consumer's first next(): the outermost call starts.
Call ==
    /\ pc = "start"
    /\ stack' = << NewFrame(board) >>
    /\ pc' = "running"
    /\ UNCHANGED <<prog, board, counter, emitted, start>>
    /\ UNCHANGED genvars
    /\ UNCHANGED mainvars

\* (mutant) a candidate loop that does not move on after an invalid
\* candidate.
TryRepeats ==
    /\ pc = "running"
    /\ stack # << >>
    /\ Top.st = "loop"
    /\ Top.n <= 9
    /\ ~ ValidRaises(board, Top.r, Top.c, Top.n)
    /\ IF IsValid(board, Top.r, Top.c, Top.n)
       THEN /\ board' = Place(board, Top.r, Top.c, Top.n)
            /\ stack' = Append(stack, NewFrame(board'))
       ELSE /\ board' = board
            /\ stack' = stack
    /\ UNCHANGED <<prog, pc, counter, emitted, start>>
    /\ UNCHANGED genvars
    /\ UNCHANGED mainvars

\* One iteration of "for n in range(1, 10)": a valid candidate is written to
\* the cell and solve() is called on the result; an invalid one is skipped.
Try ==
    /\ pc = "running"
    /\ stack # << >>
    /\ Top.st = "loop"
    /\ Top.n <= 9
    /\ ~ ValidRaises(board, Top.r, Top.c, Top.n)
    /\ IF IsValid(board, Top.r, Top.c, Top.n)
       THEN /\ board' = Place(board, Top.r, Top.c, Top.n)
            /\ stack' = Append(stack, NewFrame(board'))
       ELSE /\ board' = board
            /\ stack' = SetTop([Top EXCEPT !.n = Top.n + 1])
    /\ UNCHANGED <<prog, pc, counter, emitted, start>>
    /\ UNCHANGED genvars
    /\ UNCHANGED mainvars

\* "yield True": no cell is empty; control goes to the consumer.
Emit ==
    /\ pc = "running"
    /\ stack # << >>
    /\ Top.st = "full"
    /\ stack' = SetTop([Top EXCEPT !.st = "yielded"])
    /\ emitted' = Append(emitted, board)
    /\ pc' = "yielded"
    /\ UNCHANGED <<prog, board, counter, start>>
    /\ UNCHANGED genvars
    /\ UNCHANGED mainvars

\* The consumer takes the item and pulls the next one.
Pull ==
    /\ pc = "yielded"
    /\ counter' = counter + 1
    /\ stack' = SetTop([Top EXCEPT !.st = "resumed"])
    /\ pc' = "running"
    /\ UNCHANGED <<prog, board, emitted, start>>
    /\ UNCHANGED genvars
    /\ UNCHANGED mainvars

\* A call is at its end: "return False" after the candidate loop, or the end
\* of the function after the yield.
AtReturn ==
    /\ pc = "running"
    /\ stack # << >>
    /\ \/ Top.st = "loop" /\ Top.n = 10
       \/ Top.st = "resumed"

\* The innermost call returns to the "yield from" of its caller.
Return ==
    /\ AtReturn
    /\ Len(stack) > 1
    /\ stack' = [ SubSeq(stack, 1, Len(stack) - 1)
                    EXCEPT ![Len(stack) - 1].st = "back" ]
    /\ UNCHANGED <<prog, board, pc, counter, emitted, start>>
    /\ UNCHANGED genvars
    /\ UNCHANGED mainvars

\* (mutant) the backtrack line left out: the cell keeps the candidate.
BacktrackKeepsCell ==
    /\ pc = "running"
    /\ stack # << >>
    /\ Top.st = "back"
    /\ board' = board
    /\ stack' = SetTop([Top EXCEPT !.st = "loop", !.n = Top.n + 1])
    /\ UNCHANGED <<prog, pc, counter, emitted, start>>
    /\ UNCHANGED genvars
    /\ UNCHANGED mainvars

\* "# backtrack": the caller empties its cell and goes on with the next
\* candidate.
Backtrack ==
    /\ pc = "running"
    /\ stack # << >>
    /\ Top.st = "back"
    /\ board' = Place(board, Top.r, Top.c, 0)
    /\ stack' = SetTop([Top EXCEPT !.st = "loop", !.n = Top.n + 1])
    /\ UNCHANGED <<prog, pc, counter, emitted, start>>
    /\ UNCHANGED genvars
    /\ UNCHANGED mainvars

\* The outermost call returns: the sequence is exhausted.
Exhaust ==
    /\ AtReturn
    /\ Len(stack) = 1
    /\ stack' = << >>
    /\ pc' = "exhausted"
    /\ UNCHANGED <<prog, board, counter, emitted, start>>
    /\ UNCHANGED genvars
    /\ UNCHANGED mainvars

\* IndexError in the scan or in number_is_valid: the exception goes up
\* through every "yield from" and out of the consumer's loop; nothing is
\* undone on the way.
IndexErrorInSolve ==
    /\ pc = "running"
    /\ stack # << >>
    /\ \/ Top.st = "raise"
       \/ /\ Top.st = "loop"
          /\ Top.n <= 9
          /\ ValidRaises(board, Top.r, Top.c, Top.n)
    /\ stack' = << >>
    /\ pc' = "IndexError"
    /\ UNCHANGED <<prog, board, counter, emitted, start>>
    /\ UNCHANGED genvars
    /\ UNCHANGED mainvars

\* (mutant) a solve() whose frames undo their placements when the generator
\* is dropped (a try/finally around the yield from).
StopWithCleanup ==
    /\ pc = "yielded"
    /\ pc' = "stopped"
    /\ board' = start
    /\ UNCHANGED <<prog, stack, counter, emitted, start>>
    /\ UNCHANGED genvars
    /\ UNCHANGED mainvars

\* A consumer that stops pulling after an item: the suspended generator is
\* dropped, and none of its frames runs again (solve() has no finally).
Stop ==
    /\ pc = "yielded"
    /\ pc' = "stopped"
    /\ UNCHANGED <<prog, board, stack, counter, emitted, start>>
    /\ UNCHANGED genvars
    /\ UNCHANGED mainvars

Search == Try \/ Emit \/ Return \/ Backtrack

(***************************************************************************)
(* SudokuSolver.py: main() on a board read from standard input.            *)
(***************************************************************************)
Init ==
    /\ prog = "solver"
    /\ board \in StartGrids
    /\ start = board
    /\ stack = << >>
    /\ pc = "start"
    /\ counter = 0
    /\ emitted = << >>
    /\ rng = [seed |-> 0, pos |-> 0]
    /\ difficulty = 0
    /\ timeout = << >>
    /\ clock = 0
    /\ n_tries = 0
    /\ n = 0
    /\ min_empty = 0
    /\ stderr = << >>
    /\ stdin = << >>
    /\ loop_inifinitely = FALSE
    /\ calls = 0

Next == Call \/ Search \/ Pull \/ Exhaust \/ Stop

Spec == Init /\ [][Next]_vars

\* A consumer that keeps pulling, as main's for loop does: no step of the
\* consumer or of the suspended generator is put off for ever.
Drain == Call \/ Search \/ Pull \/ Exhaust

MaxDrainHoles == 6

DrainGrids ==
    { Punch(H, E) :
        H \in SUBSET { HoleCells[i] : i \in 1..Min(MaxDrainHoles, Len(HoleCells)) },
        E \in Edits }

DrainInit == Init /\ board \in DrainGrids

DrainSpec == DrainInit /\ [][Drain]_vars /\ WF_vars(Drain)

(***************************************************************************)
(* SudokuSolver.py: main().  Standard input is a sequence of lines, each a *)
(* sequence of characters: what sys.stdin.read().rstrip().split("\n")      *)
(* gives.  The inputs are boards written in both forms, whole and cut      *)
(* short, and boards of a few digits on the top and left edge.             *)
(* (evaluate() only counts the zeros of the lists and prints a label; it   *)
(* reads no cell by index and changes nothing.)                            *)
(***************************************************************************)
MaxInputHoles == 4
MaxCut == 2
MaxWidth == 6
MaxHeight == 4

Digits == <<"0", "1", "2", "3", "4", "5", "6", "7", "8", "9">>

\* int(x) of a character of line.replace('.', '0')
IntOf(ch) == IF ch = "." THEN 0 ELSE (CHOOSE d \in 1..10 : Digits[d] = ch) - 1

\* The character a cell is written with.
CharOf(v) == IF v = 0 THEN "." ELSE Digits[v + 1]

\* Python's seq[a:b]
Slice(seq, a, b) == SubSeq(seq, a + 1, Min(b, Len(seq)))

\* [[int(x) for x in line.replace('.', '0')] for line in ...]
ParseLines(lines) ==
    [i \in 1..Len(lines) |-> [j \in 1..Len(lines[i]) |-> IntOf(lines[i][j])]]

\* if len(board) == 1: board = [board[0][i:i+9] for i in range(0, 81, 9)]
Rows(lines) ==
    LET parsed == ParseLines(lines)
    IN  IF Len(parsed) = 1
        THEN [i \in 1..9 |-> Slice(parsed[1], 9 * (i - 1), 9 * (i - 1) + 9)]
        ELSE parsed

\* The list of lists as a grid: the cells it does not have are Absent.
GridOf(rows) ==
    [r \in Idx |-> [c \in Idx |->
        IF r < Len(rows) /\ c < Len(rows[r + 1]) THEN rows[r + 1][c + 1]
                                                 ELSE Absent]]

\* A grid in the 9-line form and in the single-line form.
NineLines(g) == [i \in 1..9 |-> [j \in 1..9 |-> CharOf(g[i - 1][j - 1])]]

OneLine(g) == << [k \in 1..81 |-> CharOf(g[(k - 1) \div 9][(k - 1) % 9])] >>

InputGrids ==
    { Punch(H, {}) :
        H \in SUBSET { HoleCells[i] : i \in 1..Min(MaxInputHoles, Len(HoleCells)) } }

\* A digit on every second cell of row 0 and of column 0, cut to a width and
\* a height.
EdgeRow == <<".", "1", "3", "5", "7", "9">>

EdgeColumn == << <<"2">>, <<"4">>, <<"6">>, <<"8">> >>

EdgeInputs ==
    { SubSeq(<<SubSeq(EdgeRow, 1, Min(w, Len(EdgeRow)))>> \o EdgeColumn,
             1, 1 + Min(h, Len(EdgeColumn))) :
        w \in 1..MaxWidth, h \in 0..MaxHeight }

Inputs ==
    { SubSeq(NineLines(g), 1, 9 - d) : g \in InputGrids, d \in 0..MaxCut }
    \cup { << SubSeq(OneLine(g)[1], 1, 81 - d) >> : g \in InputGrids, d \in 0..MaxCut }
    \cup EdgeInputs

RECURSIVE DigitCount(_)
DigitCount(lines) ==
    IF lines = << >> THEN 0
    ELSE Len(lines[1]) + DigitCount(SubSeq(lines, 2, Len(lines)))

MainInit ==
    /\ prog = "solver"
    /\ stdin \in Inputs
    /\ board = GridOf(Rows(stdin))
    /\ start = board
    /\ stack = << >>
    /\ pc = "start"
    /\ counter = 0
    /\ emitted = << >>
    /\ rng = [seed |-> 0, pos |-> 0]
    /\ difficulty = 0
    /\ timeout = << >>
    /\ clock = 0
    /\ n_tries = 0
    /\ n = 0
    /\ min_empty = 0
    /\ stderr = << >>
    /\ loop_inifinitely = FALSE
    /\ calls = 0

\* main's loop "for _solutions in sudoku.solve()" pulls until the sequence
\* is exhausted and then prints "Solutions: ", counter.
MainNext == Call \/ Search \/ Pull \/ Exhaust \/ IndexErrorInSolve

MainSpec == MainInit /\ [][MainNext]_vars


(***************************************************************************)
(* SudokuGenerator.py: Sudoku.generate(difficulty, timeout).               *)
(*                                                                         *)
(* self.rng is seeded once, in __init__, and is deterministic from then    *)
(* on: the model takes the seed from 1..NumSeeds and gives every seed a    *)
(* fixed, endlessly repeated stream of draws <<row, col, num>>.  Every     *)
(* stream is built from the cells of Base so that enumeration stays short  *)
(* whatever the number of clues:                                           *)
(*  - Kill: row 0 without cell (0,0), then Base[0][0] drawn for cell (1,0).*)
(*    On a board where (0,0) is empty this leaves (0,0) no candidate.      *)
(*  - chunks of ChunkLen further cells of Base, in an order that depends   *)
(*    on the seed, each followed by Kill again (draws that are refused     *)
(*    where they were placed before);                                      *)
(*  - Fix, after chunk FixChunk: Base[1][0] drawn for (1,6), which is      *)
(*    refused when the 4 of cell (2,6) is on the board, then Base[1][0]    *)
(*    over the digit at (1,0), then Base[0][0] for (0,0).                  *)
(* An attempt that starts at the head of the stream and places more than   *)
(* 9 + ChunkLen * FixChunk clues ends on a subset of Base; every other      *)
(* attempt ends with (0,0) empty and without a candidate.                  *)
(***************************************************************************)
NumSeeds == 2
MaxTries == 2
MaxTime == 2
MaxDifficulty == 7
MaxCalls == 2

ChunkLen == 7
FixChunk == 4

Seeds == 1..NumSeeds

Difficulties == (0 - MaxDifficulty - 1)..MaxDifficulty

\* None, 0 (which "if timeout:" takes for no timeout) and a deadline.
Timeouts == { << >>, <<0>>, <<1>> }

DrawOf(k) == << k \div 9, k % 9, Base[k \div 9][k % 9] >>

Kill == [i \in 1..8 |-> <<0, i, Base[0][i]>>] \o << <<1, 0, Base[0][0]>> >>

Fix == << <<1, 6, Base[1][0]>>, <<1, 0, Base[1][0]>>, <<0, 0, Base[0][0]>> >>

\* The cells of the chunks: (2,6) first, then every cell outside row 0 other
\* than (1,0), (1,6) and (2,6), in the order i * (3 * seed + 1) mod 81.
CellOrder(seed) ==
    << 9 * 2 + 6 >> \o
    SelectSeq([i \in 1..81 |-> (i * (3 * seed + 1)) % 81],
              LAMBDA k : k >= 9 /\ k \notin {9 * 1 + 0, 9 * 1 + 6, 9 * 2 + 6})

Chunk(seed, i) ==
    LET cells == SubSeq(CellOrder(seed), ChunkLen * (i - 1) + 1,
                        Min(ChunkLen * i, Len(CellOrder(seed))))
    IN  [j \in 1..Len(cells) |-> DrawOf(cells[j])]

RECURSIVE StreamFrom(_, _)
StreamFrom(seed, i) ==
    IF ChunkLen * (i - 1) >= Len(CellOrder(seed)) THEN << >>
    ELSE Chunk(seed, i) \o Kill \o (IF i = FixChunk THEN Fix ELSE << >>)
            \o StreamFrom(seed, i + 1)

Streams == [seed \in Seeds |-> Kill \o StreamFrom(seed, 1)]

\* row = random_raw() % 9, col = random_raw() % 9, num = 1 + random_raw() % 9
NextDraw == Streams[rng.seed][rng.pos + 1]

Advance == [rng EXCEPT !.pos = (rng.pos + 1) % Len(Streams[rng.seed])]

\* board.fill(0)
Zeros == [r \in Idx |-> [c \in Idx |-> 0]]

(***************************************************************************)
(* Sudoku.min_empty_cells_for_difficulty                                   *)
(***************************************************************************)
empty_cells == <<0, 25, 35, 45, 52, 58, 64>>

\* Python's list index: 0-based, a negative index counts from the end.
PyIndexInRange(seq, i) == 0 - Len(seq) <= i /\ i <= Len(seq) - 1

PyIndex(seq, i) == IF i >= 0 THEN seq[i + 1] ELSE seq[Len(seq) + i + 1]

\* "if difficulty < 1 or difficulty > len(empty_cells)-1": the diagnostic.
InvalidDifficulty(d) == d < 1 \/ d > Len(empty_cells) - 1

\* (mutant) the table read as if level 1 were its first entry.
min_empty_cells_for_difficulty_from_one(d) ==
    PyIndex(empty_cells, IF d >= 1 THEN d - 1 ELSE d)

\* "return empty_cells[difficulty]", where it does not raise IndexError.
min_empty_cells_for_difficulty(d) == PyIndex(empty_cells, d)

Diagnosed(d) ==
    IF InvalidDifficulty(d) THEN Append(stderr, "invalid difficulty") ELSE stderr

(***************************************************************************)
(* Sudoku.generate                                                         *)
(***************************************************************************)
\* "if timeout:" and "time.time() > timeout"
DeadlinePassed == timeout # << >> /\ timeout[1] # 0 /\ clock > timeout[1]

Finished == pc \in {"True", "False", "IndexError"}

\* Time passes, at any point of the run.
Tick ==
    /\ ~ Finished
    /\ clock < MaxTime
    /\ clock' = clock + 1
    /\ UNCHANGED <<prog, board, stack, pc, counter, emitted, start>>
    /\ UNCHANGED <<rng, difficulty, timeout, n_tries, n, min_empty, stderr>>
    /\ UNCHANGED mainvars

\* The deadline has passed at the head of the loop: break, "No Sudoku
\* found.", return False.
TimedOut ==
    /\ pc = "loop"
    /\ DeadlinePassed
    /\ stderr' = Append(stderr, "No Sudoku found.")
    /\ pc' = "False"
    /\ UNCHANGED <<prog, board, stack, counter, emitted, start>>
    /\ UNCHANGED <<rng, difficulty, timeout, clock, n_tries, n, min_empty>>
    /\ UNCHANGED mainvars

\* (mutant) the number of clues taken from the level below.
BeginAttemptLevelBelow ==
    /\ pc = "loop"
    /\ ~ DeadlinePassed
    /\ n_tries < MaxTries
    /\ PyIndexInRange(empty_cells, difficulty - 1)
    /\ n_tries' = n_tries + 1
    /\ stderr' = Diagnosed(difficulty)
    /\ min_empty' = min_empty_cells_for_difficulty(difficulty - 1)
    /\ n' = 81 - min_empty'
    /\ pc' = "place"
    /\ UNCHANGED <<prog, board, stack, counter, emitted, start>>
    /\ UNCHANGED <<rng, difficulty, timeout, clock>>
    /\ UNCHANGED mainvars

\* An attempt begins: n_tries += 1 and
\* n = 81 - self.min_empty_cells_for_difficulty(difficulty).
BeginAttempt ==
    /\ pc = "loop"
    /\ ~ DeadlinePassed
    /\ n_tries < MaxTries
    /\ PyIndexInRange(empty_cells, difficulty)
    /\ n_tries' = n_tries + 1
    /\ stderr' = Diagnosed(difficulty)
    /\ min_empty' = min_empty_cells_for_difficulty(difficulty)
    /\ n' = 81 - min_empty'
    /\ pc' = "place"
    /\ UNCHANGED <<prog, board, stack, counter, emitted, start>>
    /\ UNCHANGED <<rng, difficulty, timeout, clock>>
    /\ UNCHANGED mainvars

\* The same lines for a difficulty that is no index of the table: the
\* diagnostic is printed and empty_cells[difficulty] raises IndexError.
RaiseIndexError ==
    /\ pc = "loop"
    /\ ~ DeadlinePassed
    /\ n_tries < MaxTries
    /\ ~ PyIndexInRange(empty_cells, difficulty)
    /\ n_tries' = n_tries + 1
    /\ stderr' = Diagnosed(difficulty)
    /\ pc' = "IndexError"
    /\ UNCHANGED <<prog, board, stack, counter, emitted, start>>
    /\ UNCHANGED <<rng, difficulty, timeout, clock, n, min_empty>>
    /\ UNCHANGED mainvars

\* (mutant) a generator that is not advanced: every iteration gets the same
\* row, column and number.
DrawWithoutAdvance ==
    /\ pc = "place"
    /\ n > 0
    /\ rng' = rng
    /\ IF number_is_valid(board, NextDraw[1], NextDraw[2], NextDraw[3])
       THEN /\ board' = Place(board, NextDraw[1], NextDraw[2], NextDraw[3])
            /\ n' = n - 1
       ELSE UNCHANGED <<board, n>>
    /\ UNCHANGED <<prog, stack, pc, counter, emitted, start>>
    /\ UNCHANGED <<difficulty, timeout, clock, n_tries, min_empty, stderr>>
    /\ UNCHANGED mainvars

\* (mutant) a valid draw written to the board without "n -= 1".
DrawNotCounted ==
    /\ pc = "place"
    /\ n > 0
    /\ rng' = Advance
    /\ IF number_is_valid(board, NextDraw[1], NextDraw[2], NextDraw[3])
       THEN board' = Place(board, NextDraw[1], NextDraw[2], NextDraw[3])
       ELSE board' = board
    /\ UNCHANGED <<prog, stack, pc, counter, emitted, start>>
    /\ UNCHANGED <<difficulty, timeout, clock, n_tries, n, min_empty, stderr>>
    /\ UNCHANGED mainvars

\* (mutant) the deadline looked at in the placement loop too.
DrawChecksDeadline ==
    /\ pc = "place"
    /\ n > 0
    /\ IF DeadlinePassed
       THEN /\ pc' = "False"
            /\ UNCHANGED <<rng, board, n>>
       ELSE /\ rng' = Advance
            /\ pc' = pc
            /\ IF number_is_valid(board, NextDraw[1], NextDraw[2], NextDraw[3])
               THEN /\ board' = Place(board, NextDraw[1], NextDraw[2], NextDraw[3])
                    /\ n' = n - 1
               ELSE UNCHANGED <<board, n>>
    /\ UNCHANGED <<prog, stack, counter, emitted, start>>
    /\ UNCHANGED <<difficulty, timeout, clock, n_tries, min_empty, stderr>>
    /\ UNCHANGED mainvars

\* One iteration of "while n > 0": a draw; if number_is_valid, it is written
\* to the board (over whatever the cell held) and counted.
Draw ==
    /\ pc = "place"
    /\ n > 0
    /\ rng' = Advance
    /\ IF number_is_valid(board, NextDraw[1], NextDraw[2], NextDraw[3])
       THEN /\ board' = Place(board, NextDraw[1], NextDraw[2], NextDraw[3])
            /\ n' = n - 1
       ELSE UNCHANGED <<board, n>>
    /\ UNCHANGED <<prog, stack, pc, counter, emitted, start>>
    /\ UNCHANGED <<difficulty, timeout, clock, n_tries, min_empty, stderr>>
    /\ UNCHANGED mainvars

\* The placement loop is over: "[solution for solution in self.solve()]"
\* begins.
Placed ==
    /\ pc = "place"
    /\ n <= 0
    /\ start' = board
    /\ counter' = 0
    /\ emitted' = << >>
    /\ pc' = "start"
    /\ UNCHANGED <<prog, board, stack>>
    /\ UNCHANGED genvars
    /\ UNCHANGED mainvars

\* (mutant) a board accepted as soon as it has a solution.
AcceptAny ==
    /\ pc = "exhausted"
    /\ counter >= 1
    /\ pc' = "True"
    /\ UNCHANGED <<prog, board, stack, counter, emitted, start>>
    /\ UNCHANGED genvars
    /\ UNCHANGED mainvars

\* "if len(solutions) == 1: return True"
Accept ==
    /\ pc = "exhausted"
    /\ counter = 1
    /\ pc' = "True"
    /\ UNCHANGED <<prog, board, stack, counter, emitted, start>>
    /\ UNCHANGED genvars
    /\ UNCHANGED mainvars

\* (mutant) the loop goes round without "self.reset()".
RejectWithoutReset ==
    /\ pc = "exhausted"
    /\ counter # 1
    /\ pc' = "loop"
    /\ UNCHANGED <<prog, board, stack, counter, emitted, start>>
    /\ UNCHANGED genvars
    /\ UNCHANGED mainvars

\* otherwise "self.reset()" and the loop goes round.
Reject ==
    /\ pc = "exhausted"
    /\ counter # 1
    /\ board' = Zeros
    /\ pc' = "loop"
    /\ UNCHANGED <<prog, stack, counter, emitted, start>>
    /\ UNCHANGED genvars
    /\ UNCHANGED mainvars

\* main() in loop mode: generate has returned, the puzzle is printed and
\* written to its files, then "sudoku.reset()" and generate is called again
\* (with timeout=None, as main always calls it).
MainAgain ==
    /\ pc \in {"True", "False"}
    /\ loop_inifinitely
    /\ calls < MaxCalls
    /\ calls' = calls + 1
    /\ board' = Zeros
    /\ n_tries' = 0
    /\ pc' = "loop"
    /\ UNCHANGED <<prog, stack, counter, emitted, start>>
    /\ UNCHANGED <<rng, difficulty, timeout, clock, n, min_empty, stderr>>
    /\ UNCHANGED <<stdin, loop_inifinitely>>

GenInit ==
    /\ prog = "generator"
    /\ board = Zeros
    /\ start = board
    /\ stack = << >>
    /\ pc = "loop"
    /\ counter = 0
    /\ emitted = << >>
    /\ rng \in [seed : Seeds, pos : {0}]
    /\ difficulty \in Difficulties
    /\ timeout \in Timeouts
    /\ clock = 1
    /\ n_tries = 0
    /\ n = 0
    /\ min_empty = 0
    /\ stderr = << >>
    /\ stdin = << >>
    /\ loop_inifinitely \in (IF timeout = << >> THEN BOOLEAN ELSE {FALSE})
    /\ calls = 1

GenNext ==
    \/ Tick \/ TimedOut \/ BeginAttempt \/ RaiseIndexError \/ Draw \/ Placed
    \/ Call \/ Search \/ Pull \/ Exhaust \/ Accept \/ Reject \/ MainAgain

GenSpec == GenInit /\ [][GenNext]_vars

\* One call of generate for a level of 1..6, before any deadline, with the
\* steps of the placement loop and of the enumeration never put off for
\* ever.
AttemptInit ==
    /\ GenInit
    /\ difficulty \in 1..6
    /\ timeout \in {<< >>, <<1>>}
    /\ ~ loop_inifinitely

AttemptRuns ==
    Draw \/ Placed \/ Call \/ Search \/ Pull \/ Exhaust \/ Accept \/ Reject

AttemptNext == BeginAttempt \/ AttemptRuns

AttemptSpec == AttemptInit /\ [][AttemptNext]_vars /\ WF_vars(AttemptRuns)

(***************************************************************************)
(* What the properties are stated with.                                    *)
(***************************************************************************)
Val(b, k) == b[k \div 9][k % 9]

\* No non-zero value twice in a row, column or box: no cell holds the value
\* of a non-empty cell that comes before it in the unit.
NoDup(b) ==
    \A r \in Idx, c \in Idx :
        LET v == b[r][c]
        IN  \/ v = 0
            \/ /\ \A j \in (c + 1)..8 : b[r][j] # v
               /\ \A i \in (r + 1)..8 : b[i][c] # v
               /\ \A i \in r..(r - (r % 3) + 2) :
                  \A j \in (c - (c % 3))..(c - (c % 3) + 2) :
                      (i = r /\ j <= c) \/ b[i][j] # v

Full(b) == EmptyCells(b) = {}

LastEmpty(b) == CHOOSE k \in EmptyCells(b) : \A m \in EmptyCells(b) : m <= k

\* Every fully filled grid without a repeated digit that agrees with b on
\* b's non-empty cells, found by filling the empty cells last to first.
RECURSIVE Completions(_)
Completions(b) ==
    IF ~ NoDup(b) THEN {}
    ELSE IF Full(b) THEN {b}
    ELSE UNION { Completions(Place(b, LastEmpty(b) \div 9, LastEmpty(b) % 9, v)) :
                    v \in 1..9 }

\* a before b in the lexicographic order of the row-major cell sequences.
LexLess(a, b) ==
    \E k \in 0..80 :
        /\ Val(a, k) < Val(b, k)
        /\ \A m \in 0..(k - 1) : Val(a, m) = Val(b, m)

Range(s) == { s[i] : i \in 1..Len(s) }

(***************************************************************************)
(* The enumerator (specification Spec).                                    *)
(***************************************************************************)

\* C3: enumerator exhaustiveness. When solve() has been drained on a board
\* whose clues contain no duplicate, the items emitted are exactly the
\* completions of the board: as many as there are duplicate-free fillings of
\* the empty cells, none missed and none extra.
C3_Exhaustive ==
    (pc = "exhausted" /\ NoDup(start)) =>
        /\ counter = Cardinality(Completions(start))
        /\ Len(emitted) = counter
        /\ Range(emitted) = Completions(start)

\* A drained search on a duplicate-free board with four completions.
C3_Witness ==
    /\ pc = "exhausted"
    /\ NoDup(start)
    /\ counter = 4
    /\ Cardinality(Completions(start)) = 4

\* C4 (as claimed): at every emission, whatever the starting grid, the grid
\* is fully filled and has no digit twice in a row, column or box.
C4_EmissionsValid ==
    pc = "yielded" => (Full(board) /\ NoDup(board))

\* C5: the emitted solutions are in strictly ascending lexicographic order
\* of their row-major cell sequences, so none is emitted twice.
C5_Ascending ==
    \A i \in 1..Len(emitted) : \A j \in 1..Len(emitted) :
        i < j => LexLess(emitted[i], emitted[j])

\* Four solutions have been emitted.
C5_Witness == Len(emitted) = 4

\* C6: place/undo pairing. A call of solve() that reaches its end finds the
\* grid as it was when the call was entered, and once the outermost call has
\* returned the grid is the starting grid, cell for cell.
C6_Restored ==
    /\ AtReturn => board = Top.entry
    /\ pc = "exhausted" => board = start

\* A drained search that placed and undid digits at depth 6 and more and
\* emitted at least two solutions.
C6_Witness ==
    /\ pc = "exhausted"
    /\ Cardinality(EmptyCells(start)) >= 6
    /\ counter >= 2

\* C7 (as claimed): when the consumer stops after an emitted solution, the
\* grid equals the grid the search was started from.
C7_StopRestores ==
    pc = "stopped" => board = start

\* C7 (amended): when the consumer stops after an emitted solution, the grid
\* is left holding that solution, fully filled; it equals the starting grid
\* only when that grid had no empty cell.
C7_StopLeavesSolution ==
    pc = "stopped" =>
        /\ emitted # << >>
        /\ board = emitted[Len(emitted)]
        /\ Full(board)
        /\ (board = start <=> Full(start))

\* The consumer stopped after the second solution of a board with holes.
C7_Witness ==
    /\ pc = "stopped"
    /\ Len(emitted) = 2
    /\ ~ Full(start)

(***************************************************************************)
(* Properties of Sudoku.generate, checked under GenSpec.                   *)
(***************************************************************************)
\* C1: whenever generate returns True, the board it leaves behind holds the
\* clues only (every placement of the search is undone) and has exactly one
\* completion into a full grid without a repeat in a row, column or box.
C1_UniqueSolution ==
    pc = "True" =>
        /\ board = start
        /\ Cardinality(Completions(board)) = 1

C1_Witness ==
    /\ pc = "True"
    /\ difficulty = 1
    /\ counter = 1
    /\ ~ Full(board)

\* C2: whenever generate returns True for a level in 1..6, the returned board
\* has at least min_empty_cells_for_difficulty(level) empty cells.
C2_EnoughEmpty ==
    (pc = "True" /\ difficulty \in 1..6) =>
        Cardinality(EmptyCells(board)) >= min_empty_cells_for_difficulty(difficulty)

\* Level 2 returned with more than its 35 empty cells: one of the 46 counted
\* placements went over a cell that was filled already.
C2_Witness ==
    /\ pc = "True"
    /\ difficulty = 2
    /\ Cardinality(EmptyCells(board)) = 36

\* C8 (as claimed): level 1 yields 0 minimum empty cells, level 6 yields 64.
C8_BoundaryValues ==
    /\ (n_tries >= 1 /\ difficulty = 1) => min_empty = 0
    /\ (n_tries >= 1 /\ difficulty = 6) => min_empty = 64

\* C8 (amended): level 1 yields 25 minimum empty cells (the table's entry 0
\* belongs to index 0), level 6 yields 64.
C8_BoundaryValuesOfTable ==
    /\ (n_tries >= 1 /\ difficulty = 1) => min_empty = 25
    /\ (n_tries >= 1 /\ difficulty = 6) => min_empty = 64

C8_Witness ==
    /\ n_tries >= 1
    /\ difficulty = 1
    /\ min_empty = 25
    /\ n = 81 - 25

\* C9 (as claimed): for every level outside 1..6, the diagnostic "invalid
\* difficulty" is emitted and a value is still returned, so that generate
\* goes on to place clues instead of stopping with an error.
C9_InvalidOnlyLogged ==
    (InvalidDifficulty(difficulty) /\ n_tries >= 1) =>
        /\ "invalid difficulty" \in Range(stderr)
        /\ pc # "IndexError"

\* C10: generate returns False only from the check at the head of an
\* attempt, with a timeout supplied and the deadline passed; never out of
\* clue placement or enumeration, and never when no timeout was given.
C10_FalseOnlyAtLoopHead ==
    /\ [](timeout = << >> => pc # "False")
    /\ [][(pc' = "False" /\ pc # "False") =>
            /\ pc = "loop"
            /\ timeout # << >>
            /\ clock > timeout[1]]_vars

\* False after an attempt was made and thrown away.
C10_Witness ==
    /\ pc = "False"
    /\ n_tries >= 1
    /\ board = Zeros
    /\ timeout = <<1>>

(***************************************************************************)
(* Properties of SudokuSolver's main, checked under MainSpec.              *)
(***************************************************************************)
\* C11 (as claimed): an input of fewer than 81 digit characters, in the
\* 9-line or the single-line form, is rejected with an error: the run never
\* comes to the end of the enumeration, where "Solutions:" is printed.
C11_ShortInputRejected ==
    DigitCount(stdin) < 81 => pc # "exhausted"

(***************************************************************************)
(* Properties of the grid under generation, checked under GenSpec.         *)
(***************************************************************************)
\* C12: from the empty grid on, through every gated clue placement of
\* generate (one onto a filled cell included) and every place and undo step
\* of the enumeration, no row, column or box holds a non-zero value twice.
C12_NoDuplicates == NoDup(board)

\* The search has placed digits on a board whose placement phase wrote over
\* a filled cell.
C12_Witness ==
    /\ pc = "running"
    /\ Len(stack) >= 3
    /\ difficulty \in 1..6
    /\ Cardinality(EmptyCells(start)) > min_empty

Clues(b) == 81 - Cardinality(EmptyCells(b))

\* C13 (as claimed): every counted placement fills an empty cell, so that
\* at the end of the placement phase the grid holds exactly
\* n = 81 - min_empty_cells_for_difficulty(level) clues.
C13_ExactlyNClues ==
    pc = "start" => Clues(board) = 81 - min_empty

\* C13 (amended): a counted placement writes a digit to an empty cell or
\* over a filled one, so the grid never holds more clues than placements
\* were counted, and at the end of the phase it holds at least one and at
\* most n = 81 - min_empty_cells_for_difficulty(level) clues.
C13_AtMostNClues ==
    /\ pc = "place" => Clues(board) <= (81 - min_empty) - n
    /\ pc = "start" => /\ n = 0
                       /\ Clues(board) >= 1
                       /\ Clues(board) <= 81 - min_empty

\* The phase ended with fewer clues than placements counted.
C13_Witness ==
    /\ pc = "start"
    /\ difficulty = 2
    /\ Clues(board) = 45
    /\ 81 - min_empty = 46

\* C14: every attempt starts its placement phase with all 81 cells empty:
\* the grid is empty at the head of generate's loop, on the first attempt,
\* after a rejected attempt and when main, in loop mode, calls generate
\* again, and it is still empty when the first placement of the attempt is
\* about to be counted.
C14_AttemptStartsEmpty ==
    /\ pc = "loop" => board = Zeros
    /\ (pc = "place" /\ n = 81 - min_empty) => board = Zeros

\* The second attempt of the second call of generate in loop mode.
C14_Witness ==
    /\ pc = "place"
    /\ n = 81 - min_empty
    /\ board = Zeros
    /\ loop_inifinitely
    /\ calls = 2
    /\ n_tries = 2

(***************************************************************************)
(* Further properties of the enumeration.                                  *)
(***************************************************************************)
\* g has the value of s in every cell where s is not empty.
KeepsClues(s, g) == \A k \in 0..80 : Val(s, k) # 0 => Val(g, k) = Val(s, k)

\* C15: the enumeration writes only to cells that were empty in the grid it
\* started on: at every point of the search, and in every emitted solution,
\* each cell that was not empty at the start holds its original value.
C15_CluesKept ==
    pc \in {"running", "yielded", "exhausted", "stopped"} =>
        /\ KeepsClues(start, board)
        /\ \A i \in 1..Len(emitted) : KeepsClues(start, emitted[i])

\* A second solution is out, on a grid that had six cells or more empty.
C15_Witness ==
    /\ pc = "yielded"
    /\ counter = 1
    /\ Cardinality(EmptyCells(start)) >= 6
    /\ board # start

\* C16: enumeration is finite: on every starting grid, a consumer that
\* keeps pulling reaches exhaustion, whether the grid has solutions or not.
C16_Exhausts == <>(pc = "exhausted")

\* Exhausted without a solution, on a grid with empty cells.
C16_Witness ==
    /\ pc = "exhausted"
    /\ counter = 0
    /\ Cardinality(EmptyCells(start)) >= 4

C18_SameResult ==
    /\ pc = "start" =>
         \A r \in Idx, c \in Idx, v \in 1..9 :
            number_is_valid(board, r, c, v) = solver_number_is_valid(board, r, c, v)
    /\ (pc = "running" /\ stack # << >> /\ Top.st = "loop") =>
         /\ \A v \in 1..9 :
              number_is_valid(board, Top.r, Top.c, v)
                  = solver_number_is_valid(board, Top.r, Top.c, v)
         /\ board = Top.entry

\* In the candidate loop of a cell outside the first band, after candidates
\* were refused, with one that both versions accept.
C18_Witness ==
    /\ pc = "running"
    /\ stack # << >>
    /\ Top.st = "loop"
    /\ Top.r >= 3
    /\ Top.n \in 2..9
    /\ number_is_valid(board, Top.r, Top.c, Top.n)
    /\ solver_number_is_valid(board, Top.r, Top.c, Top.n)

=============================================================================
